---- MODULE Spec2Model ----
(***************************************************************************)
(* NEAR-DevHub/badges-contract: the indexed registry `Contract`            *)
(* (nft-series/src/lib.rs) and the unindexed `OpenCollection`              *)
(* (nft-series/src/series_open.rs).                                        *)
(*                                                                         *)
(* Every public method is one action.  A method is an operator from the    *)
(* contract value and the call's arguments to a result                     *)
(*   [st  |-> the contract value when the method returned or panicked,     *)
(*    err |-> "ok" or the panic message,                                   *)
(*    log |-> the events given to env::log_str, in order,                  *)
(*    seen |-> for each event, the contract value stored when it was       *)
(*             logged].                                                    *)
(* The caller, predecessor and signer of the call are arguments.           *)
(* The value in st is the one the statements executed so far have built:   *)
(* nothing is rolled back in the model, so a write placed before a guard   *)
(* would be visible after the panic.                                       *)
(***************************************************************************)
EXTENDS Integers, Sequences, FiniteSets, TLC

(***************************************************************************)
(* Bounds and input domains                                                *)
(***************************************************************************)
\* number of calls made after construction
MaxCalls == 4
\* length of the Vec<AccountId> given to set_allowed_addresses
MaxAddrs == 1
\* length of each OpenCollection vector
MaxLen == 2

Accounts == {"alice", "bob"}
\* the accounts that make calls: the two above and one that holds nothing
Callers == {"alice", "bob", "carol"}
TokenIds == {"t1", "t2"}
SeriesIds == {1, 2}
\* the u64 ids given to OpenCollection
OpenIds == {1, 2}
OpenNames == {"n1", "n2"}
\* (owner, image_url, reference, title, description) of an OpenCollection token
OpenDetails ==
    { << "alice", "img1", "ref1", "title1", "desc1" >>,
      << "bob", "img2", "ref2", "title2", "desc2" >> }

\* Option<T>: None is the empty sequence, Some(x) the one-element sequence
None == << >>
Some(x) == << x >>
IsSome(o) == Len(o) = 1
Unwrap(o) == o[1]

\* the metadata new_default_meta builds
DefaultMetadata == "DevHub Badges"
ContractMetadatas == {DefaultMetadata, "custom"}
TokenMetadatas == {"tm1", "tm2"}
\* Option<HashMap<AccountId, u32>>: basis-point shares
Royalties ==
    { None,
      Some([a \in {"alice"} |-> 500]),
      Some([a \in {"alice", "bob"} |-> IF a = "alice" THEN 6000 ELSE 5000]) }
\* Option<Balance>
Prices == { None, Some(100) }
Deposits == { 0, 100 }
\* the configurations series are created with: (metadata, royalty, price)
SeriesConfigs ==
    { << "tm1", Some([a \in {"alice"} |-> 500]), Some(100) >>,
      << "tm2", None, None >>,
      << "tm1", Some([a \in {"alice", "bob"} |-> IF a = "alice" THEN 6000 ELSE 5000]),
         None >> }
\* the accounts the contract is constructed for
InitOwners == {"alice"}

NFT_STANDARD_NAME == "nep171"
EVENT_VERSION == "1.1.0"

\* the message of each panic
ERR_ONLY_OWNER_METADATA == "Only the contract owner can update the metadata"
ERR_ONLY_OWNER_ALLOWED == "Only the owner can set allowed addresses"
ERR_SERIES_NOT_FOUND == "Series not found"
ERR_TOKEN_NOT_FOUND == "Token not found"
ERR_TRANSFER_NOT_ALLOWED == "Transfer not allowed to this address"
\* the errors of the operations specified but not in this source
ERR_UNAUTHORIZED == "Unauthorized"
ERR_ALREADY_EXISTS == "AlreadyExists"
ERR_INVALID_ROYALTY == "InvalidRoyalty"
ERR_DUPLICATE_TOKEN == "DuplicateToken"
ERR_INSUFFICIENT_PRICE == "InsufficientPrice"

VARIABLES
    owner_id,           \* Contract.owner_id
    approved_minters,   \* Contract.approved_minters
    approved_creators,  \* Contract.approved_creators
    series_by_id,       \* Contract.series_by_id : SeriesId -> Series
    tokens_by_id,       \* Contract.tokens_by_id : TokenId -> Token
    tokens_per_owner,   \* Contract.tokens_per_owner : AccountId -> set of TokenId
    metadata,           \* Contract.metadata
    allowed_transfers,  \* Contract.allowed_transfers
    ncalls,             \* calls made since construction
    tokens,             \* OpenCollection.tokens
    series              \* OpenCollection.series

cvars == << owner_id, approved_minters, approved_creators, series_by_id,
            tokens_by_id, tokens_per_owner, metadata, allowed_transfers, ncalls >>
ovars == << tokens, series >>
vars == << owner_id, approved_minters, approved_creators, series_by_id,
           tokens_by_id, tokens_per_owner, metadata, allowed_transfers, ncalls,
           tokens, series >>

(***************************************************************************)
(* Helpers                                                                 *)
(***************************************************************************)
\* map.insert(k, v)
MapInsert(m, k, v) == [x \in DOMAIN m \cup {k} |-> IF x = k THEN v ELSE m[x]]

\* the event object handed to env::log_str
Event(kind, data) ==
    [standard |-> NFT_STANDARD_NAME, version |-> EVENT_VERSION,
     event |-> kind, data |-> data]

\* the result of a call: seen[i] is the contract value in storage when log[i]
\* was handed to env::log_str (None when no contract value had been built yet)
Ok(st, lg, seen) == [st |-> st, err |-> "ok", log |-> lg, seen |-> seen]
Panic(st, msg, lg, seen) == [st |-> st, err |-> msg, log |-> lg, seen |-> seen]

\* the Contract value in the current state
Self ==
    [owner_id |-> owner_id,
     approved_minters |-> approved_minters,
     approved_creators |-> approved_creators,
     series_by_id |-> series_by_id,
     tokens_by_id |-> tokens_by_id,
     tokens_per_owner |-> tokens_per_owner,
     metadata |-> metadata,
     allowed_transfers |-> allowed_transfers]

(***************************************************************************)
(* impl Series                                                             *)
(***************************************************************************)
Series_update_metadata(s, m) == [s EXCEPT !.metadata = m]
\* update_royalty that keeps the stored table when it is given None
Series_update_royalty_merge(s, r) ==
    IF r = None THEN s ELSE [s EXCEPT !.royalty = r]
Series_update_royalty(s, r) == [s EXCEPT !.royalty = r]
Series_update_price(s, p) == [s EXCEPT !.price = p]
Series_update_owner_id(s, o) == [s EXCEPT !.owner_id = o]

(***************************************************************************)
(* impl Contract                                                           *)
(***************************************************************************)
\* new that puts the owner on the transfer allow-list
new_owner_allowed(owner, md) ==
    Ok([owner_id |-> owner,
        approved_minters |-> {owner},
        approved_creators |-> {owner},
        series_by_id |-> << >>,
        tokens_by_id |-> << >>,
        tokens_per_owner |-> << >>,
        metadata |-> md,
        allowed_transfers |-> {owner}],
       << >>, << >>)

new(owner, md) ==
    Ok([owner_id |-> owner,
        approved_minters |-> {owner},
        approved_creators |-> {owner},
        series_by_id |-> << >>,
        tokens_by_id |-> << >>,
        tokens_per_owner |-> << >>,
        metadata |-> md,
        allowed_transfers |-> {}],
       << >>, << >>)

\* logs the event, then calls Self::new
new_default_meta(owner) ==
    LET lg == << Event("contract_metadata_update", DefaultMetadata) >>
        r == new(owner, DefaultMetadata)
    IN  [r EXCEPT !.log = lg \o r.log, !.seen = << None >> \o r.seen]

\* update_metadata that compares the signer with the owner
update_metadata_by_signer(c, predecessor, signer, owner_arg, md) ==
    IF signer # c.owner_id
    THEN Panic(c, ERR_ONLY_OWNER_METADATA, << >>, << >>)
    ELSE LET written == [c EXCEPT !.metadata = md]
         IN  Ok(written, << Event("contract_metadata_update", md) >>,
                << Some(written) >>)

\* update_metadata that also stores its owner_id argument
update_metadata_sets_owner(c, predecessor, signer, owner_arg, md) ==
    IF predecessor # c.owner_id
    THEN Panic(c, ERR_ONLY_OWNER_METADATA, << >>, << >>)
    ELSE LET written == [c EXCEPT !.metadata = md, !.owner_id = owner_arg]
         IN  Ok(written, << Event("contract_metadata_update", md) >>,
                << Some(written) >>)

update_metadata(c, predecessor, signer, owner_arg, md) ==
    IF predecessor # c.owner_id
    THEN Panic(c, ERR_ONLY_OWNER_METADATA, << >>, << >>)
    ELSE LET written == [c EXCEPT !.metadata = md]
         IN  Ok(written, << Event("contract_metadata_update", md) >>,
                << Some(written) >>)

update_series_metadata(c, caller, series_id, md) ==
    IF series_id \notin DOMAIN c.series_by_id
    THEN Panic(c, ERR_SERIES_NOT_FOUND, << >>, << >>)
    ELSE LET s == Series_update_metadata(c.series_by_id[series_id], md)
             written == [c EXCEPT !.series_by_id = MapInsert(@, series_id, s)]
         IN  Ok(written, << Event("nft_metadata_update", "[]") >>,
                << Some(written) >>)

update_series_royalty(c, caller, series_id, royalty) ==
    IF series_id \notin DOMAIN c.series_by_id
    THEN Panic(c, ERR_SERIES_NOT_FOUND, << >>, << >>)
    ELSE LET s == Series_update_royalty(c.series_by_id[series_id], royalty)
             written == [c EXCEPT !.series_by_id = MapInsert(@, series_id, s)]
         IN  Ok(written, << Event("contract_metadata_update", "[]") >>,
                << Some(written) >>)

\* update_series_price that stores a series for an id it did not find
update_series_price_upsert(c, caller, series_id, price) ==
    LET old == IF series_id \in DOMAIN c.series_by_id
               THEN c.series_by_id[series_id]
               ELSE [metadata |-> "tm1", royalty |-> None, tokens |-> {},
                     price |-> None, owner_id |-> caller]
        s == Series_update_price(old, price)
        written == [c EXCEPT !.series_by_id = MapInsert(@, series_id, s)]
    IN  Ok(written, << Event("contract_metadata_update", "[]") >>,
           << Some(written) >>)

update_series_price(c, caller, series_id, price) ==
    IF series_id \notin DOMAIN c.series_by_id
    THEN Panic(c, ERR_SERIES_NOT_FOUND, << >>, << >>)
    ELSE LET s == Series_update_price(c.series_by_id[series_id], price)
             written == [c EXCEPT !.series_by_id = MapInsert(@, series_id, s)]
         IN  Ok(written, << Event("contract_metadata_update", "[]") >>,
                << Some(written) >>)

update_series_owner_id(c, caller, series_id, owner) ==
    IF series_id \notin DOMAIN c.series_by_id
    THEN Panic(c, ERR_SERIES_NOT_FOUND, << >>, << >>)
    ELSE LET s == Series_update_owner_id(c.series_by_id[series_id], owner)
             written == [c EXCEPT !.series_by_id = MapInsert(@, series_id, s)]
         IN  Ok(written, << Event("contract_metadata_update", "[]") >>,
                << Some(written) >>)

\* for address in addresses { allowed_transfers.insert(&address) }
RECURSIVE InsertAll(_, _)
InsertAll(set, addresses) ==
    IF addresses = << >> THEN set
    ELSE InsertAll(set \cup {Head(addresses)}, Tail(addresses))

\* set_allowed_addresses that compares the predecessor with the owner
set_allowed_addresses_by_predecessor(c, predecessor, signer, addresses) ==
    IF predecessor # c.owner_id
    THEN Panic(c, ERR_ONLY_OWNER_ALLOWED, << >>, << >>)
    ELSE Ok([c EXCEPT !.allowed_transfers = InsertAll(@, addresses)],
            << >>, << >>)

set_allowed_addresses(c, predecessor, signer, addresses) ==
    IF signer # c.owner_id
    THEN Panic(c, ERR_ONLY_OWNER_ALLOWED, << >>, << >>)
    ELSE Ok([c EXCEPT !.allowed_transfers = InsertAll(@, addresses)],
            << >>, << >>)

\* transfer without its allow-list assertion
transfer_unguarded(c, caller, new_owner_id, token_id) ==
    IF token_id \notin DOMAIN c.tokens_by_id
    THEN Panic(c, ERR_TOKEN_NOT_FOUND, << >>, << >>)
    ELSE LET token == [c.tokens_by_id[token_id] EXCEPT !.owner_id = new_owner_id]
         IN  Ok([c EXCEPT !.tokens_by_id = MapInsert(@, token_id, token)],
                << >>, << >>)

\* transfer that looks the token up and stores the new owner before it asserts
transfer_write_first(c, caller, new_owner_id, token_id) ==
    IF token_id \notin DOMAIN c.tokens_by_id
    THEN Panic(c, ERR_TOKEN_NOT_FOUND, << >>, << >>)
    ELSE LET token == [c.tokens_by_id[token_id] EXCEPT !.owner_id = new_owner_id]
             written == [c EXCEPT !.tokens_by_id = MapInsert(@, token_id, token)]
         IN  IF new_owner_id \notin c.allowed_transfers
             THEN Panic(written, ERR_TRANSFER_NOT_ALLOWED, << >>, << >>)
             ELSE Ok(written, << >>, << >>)

\* transfer that looks the token up before it asserts
transfer_lookup_first(c, caller, new_owner_id, token_id) ==
    IF token_id \notin DOMAIN c.tokens_by_id
    THEN Panic(c, ERR_TOKEN_NOT_FOUND, << >>, << >>)
    ELSE IF new_owner_id \notin c.allowed_transfers
    THEN Panic(c, ERR_TRANSFER_NOT_ALLOWED, << >>, << >>)
    ELSE LET token == [c.tokens_by_id[token_id] EXCEPT !.owner_id = new_owner_id]
         IN  Ok([c EXCEPT !.tokens_by_id = MapInsert(@, token_id, token)],
                << >>, << >>)

\* transfer that stores a token built anew for the new owner
transfer_fresh_token(c, caller, new_owner_id, token_id) ==
    IF new_owner_id \notin c.allowed_transfers
    THEN Panic(c, ERR_TRANSFER_NOT_ALLOWED, << >>, << >>)
    ELSE IF token_id \notin DOMAIN c.tokens_by_id
    THEN Panic(c, ERR_TOKEN_NOT_FOUND, << >>, << >>)
    ELSE LET token == [series_id |-> 0, owner_id |-> new_owner_id]
         IN  Ok([c EXCEPT !.tokens_by_id = MapInsert(@, token_id, token)],
                << >>, << >>)

\* transfer that lets only the token's owner move it
transfer_owner_only(c, caller, new_owner_id, token_id) ==
    IF new_owner_id \notin c.allowed_transfers
    THEN Panic(c, ERR_TRANSFER_NOT_ALLOWED, << >>, << >>)
    ELSE IF token_id \notin DOMAIN c.tokens_by_id
    THEN Panic(c, ERR_TOKEN_NOT_FOUND, << >>, << >>)
    ELSE IF caller # c.tokens_by_id[token_id].owner_id
    THEN Panic(c, ERR_UNAUTHORIZED, << >>, << >>)
    ELSE LET token == [c.tokens_by_id[token_id] EXCEPT !.owner_id = new_owner_id]
         IN  Ok([c EXCEPT !.tokens_by_id = MapInsert(@, token_id, token)],
                << >>, << >>)

transfer(c, caller, new_owner_id, token_id) ==
    IF new_owner_id \notin c.allowed_transfers
    THEN Panic(c, ERR_TRANSFER_NOT_ALLOWED, << >>, << >>)
    ELSE IF token_id \notin DOMAIN c.tokens_by_id
    THEN Panic(c, ERR_TOKEN_NOT_FOUND, << >>, << >>)
    ELSE LET token == [c.tokens_by_id[token_id] EXCEPT !.owner_id = new_owner_id]
         IN  Ok([c EXCEPT !.tokens_by_id = MapInsert(@, token_id, token)],
                << >>, << >>)

(***************************************************************************)
(* The series-creation and mint paths (mod series; of lib.rs, whose file   *)
(* is not part of this source): sections 4.2 and 4.3 of the design.        *)
(***************************************************************************)
RECURSIVE SumShares(_, _)
SumShares(table, keys) ==
    IF keys = {} THEN 0
    ELSE LET k == CHOOSE x \in keys : TRUE
         IN  table[k] + SumShares(table, keys \ {k})

\* the sum of the basis-point shares of an optional royalty table
RoyaltySum(royalty) ==
    IF IsSome(royalty) THEN SumShares(Unwrap(royalty), DOMAIN Unwrap(royalty)) ELSE 0

registry_create_series(c, caller, id, md, royalty, price, owner) ==
    IF id \in DOMAIN c.series_by_id
    THEN Panic(c, ERR_ALREADY_EXISTS, << >>, << >>)
    ELSE IF caller \notin c.approved_creators
    THEN Panic(c, ERR_UNAUTHORIZED, << >>, << >>)
    ELSE IF RoyaltySum(royalty) > 10000
    THEN Panic(c, ERR_INVALID_ROYALTY, << >>, << >>)
    ELSE LET s == [metadata |-> md, royalty |-> royalty, tokens |-> {},
                   price |-> price, owner_id |-> owner]
             written == [c EXCEPT !.series_by_id = MapInsert(@, id, s)]
         IN  Ok(written, << Event("nft_series_create", "[]") >>,
                << Some(written) >>)

\* the set tokens_per_owner holds for an account (empty when it has no entry)
OwnerTokens(index, account) ==
    IF account \in DOMAIN index THEN index[account] ELSE {}

mint(c, caller, series_id, token_id, owner, attached) ==
    IF caller \notin c.approved_minters
    THEN Panic(c, ERR_UNAUTHORIZED, << >>, << >>)
    ELSE IF series_id \notin DOMAIN c.series_by_id
    THEN Panic(c, ERR_SERIES_NOT_FOUND, << >>, << >>)
    ELSE IF token_id \in DOMAIN c.tokens_by_id
    THEN Panic(c, ERR_DUPLICATE_TOKEN, << >>, << >>)
    ELSE IF IsSome(c.series_by_id[series_id].price)
            /\ attached < Unwrap(c.series_by_id[series_id].price)
    THEN Panic(c, ERR_INSUFFICIENT_PRICE, << >>, << >>)
    ELSE LET token == [series_id |-> series_id, owner_id |-> owner]
             s == [c.series_by_id[series_id] EXCEPT !.tokens = @ \cup {token_id}]
             written ==
                 [c EXCEPT
                    !.tokens_by_id = MapInsert(@, token_id, token),
                    !.tokens_per_owner =
                        MapInsert(@, owner, OwnerTokens(@, owner) \cup {token_id}),
                    !.series_by_id = MapInsert(@, series_id, s)]
         IN  Ok(written, << Event("nft_mint", "[]") >>, << Some(written) >>)

(***************************************************************************)
(* The registry as a state machine                                         *)
(***************************************************************************)
\* the state a call leaves: the contract value its result holds
Commit(r) ==
    /\ owner_id' = r.st.owner_id
    /\ approved_minters' = r.st.approved_minters
    /\ approved_creators' = r.st.approved_creators
    /\ series_by_id' = r.st.series_by_id
    /\ tokens_by_id' = r.st.tokens_by_id
    /\ tokens_per_owner' = r.st.tokens_per_owner
    /\ metadata' = r.st.metadata
    /\ allowed_transfers' = r.st.allowed_transfers
    /\ ncalls' = ncalls + 1
    /\ UNCHANGED ovars

AddressLists ==
    UNION { [1..n -> Accounts] : n \in 0..MaxAddrs }

Constructed(r) ==
    /\ owner_id = r.st.owner_id
    /\ approved_minters = r.st.approved_minters
    /\ approved_creators = r.st.approved_creators
    /\ series_by_id = r.st.series_by_id
    /\ tokens_by_id = r.st.tokens_by_id
    /\ tokens_per_owner = r.st.tokens_per_owner
    /\ metadata = r.st.metadata
    /\ allowed_transfers = r.st.allowed_transfers
    /\ ncalls = 0

InitOpen ==
    /\ tokens = << >>
    /\ series = << >>

Init ==
    /\ \E owner \in InitOwners :
          \/ \E md \in ContractMetadatas : Constructed(new(owner, md))
          \/ Constructed(new_default_meta(owner))
    /\ InitOpen

UpdateMetadata(predecessor, signer, owner_arg, md) ==
    /\ ncalls < MaxCalls
    /\ Commit(update_metadata(Self, predecessor, signer, owner_arg, md))

UpdateSeriesMetadata(caller, series_id, md) ==
    /\ ncalls < MaxCalls
    /\ Commit(update_series_metadata(Self, caller, series_id, md))

UpdateSeriesRoyalty(caller, series_id, royalty) ==
    /\ ncalls < MaxCalls
    /\ Commit(update_series_royalty(Self, caller, series_id, royalty))

UpdateSeriesPrice(caller, series_id, price) ==
    /\ ncalls < MaxCalls
    /\ Commit(update_series_price(Self, caller, series_id, price))

UpdateSeriesOwnerId(caller, series_id, owner) ==
    /\ ncalls < MaxCalls
    /\ Commit(update_series_owner_id(Self, caller, series_id, owner))

SetAllowedAddresses(predecessor, signer, addresses) ==
    /\ ncalls < MaxCalls
    /\ Commit(set_allowed_addresses(Self, predecessor, signer, addresses))

Transfer(caller, new_owner_id, token_id) ==
    /\ ncalls < MaxCalls
    /\ Commit(transfer(Self, caller, new_owner_id, token_id))

CreateSeries(caller, id, md, royalty, price, owner) ==
    /\ ncalls < MaxCalls
    /\ Commit(registry_create_series(Self, caller, id, md, royalty, price, owner))

Mint(caller, series_id, token_id, owner, attached) ==
    /\ ncalls < MaxCalls
    /\ Commit(mint(Self, caller, series_id, token_id, owner, attached))

Next ==
    \/ \E p \in Callers, sg \in Callers, o \in Callers, md \in ContractMetadatas :
          UpdateMetadata(p, sg, o, md)
    \/ \E a \in Callers, id \in SeriesIds, md \in TokenMetadatas :
          UpdateSeriesMetadata(a, id, md)
    \/ \E a \in Callers, id \in SeriesIds, r \in Royalties :
          UpdateSeriesRoyalty(a, id, r)
    \/ \E a \in Callers, id \in SeriesIds, p \in Prices :
          UpdateSeriesPrice(a, id, p)
    \/ \E a \in Callers, id \in SeriesIds, o \in Accounts :
          UpdateSeriesOwnerId(a, id, o)
    \/ \E p \in Callers, sg \in Callers, l \in AddressLists :
          SetAllowedAddresses(p, sg, l)
    \/ \E a \in Callers, n \in Accounts, t \in TokenIds :
          Transfer(a, n, t)
    \/ \E a \in Callers, id \in SeriesIds, cfg \in SeriesConfigs, o \in Accounts :
          CreateSeries(a, id, cfg[1], cfg[2], cfg[3], o)
    \/ \E a \in Callers, id \in SeriesIds, t \in TokenIds,
          o \in Accounts, d \in Deposits :
          Mint(a, id, t, o, d)

Spec == Init /\ [][Next]_vars

(***************************************************************************)
(* impl OpenCollection (series_open.rs); c is [tokens, series]             *)
(***************************************************************************)
OpenSelf == [tokens |-> tokens, series |-> series]

mint_token(c, id, sid, owner, image_url, reference, title, description) ==
    LET new_token == [id |-> id, series_id |-> sid, owner |-> owner,
                      image_url |-> image_url, reference |-> reference,
                      title |-> title, description |-> description]
    IN  [c EXCEPT !.tokens = Append(@, new_token)]

create_series(c, id, name) ==
    LET new_series == [id |-> id, name |-> name]
    IN  [c EXCEPT !.series = Append(@, new_series)]

\* iter().find(|x| x.id == id): the position of the first element with that id
Find(vec, id) ==
    IF \E i \in 1..Len(vec) : vec[i].id = id
    THEN Some(CHOOSE i \in 1..Len(vec) :
                 /\ vec[i].id = id
                 /\ \A j \in 1..(i - 1) : vec[j].id # id)
    ELSE None

get_token(c, id) ==
    IF IsSome(Find(c.tokens, id)) THEN Some(c.tokens[Unwrap(Find(c.tokens, id))])
    ELSE None

get_series(c, id) ==
    IF IsSome(Find(c.series, id)) THEN Some(c.series[Unwrap(Find(c.series, id))])
    ELSE None

\* update_series_name that renames every series with that id
update_series_name_all(c, id, name) ==
    [c EXCEPT !.series = [i \in 1..Len(@) |->
                             IF @[i].id = id THEN [@[i] EXCEPT !.name = name]
                             ELSE @[i]]]

update_series_name(c, id, name) ==
    IF IsSome(Find(c.series, id))
    THEN [c EXCEPT !.series[Unwrap(Find(c.series, id))].name = name]
    ELSE c

update_token_details(c, id, owner, image_url, reference, title, description) ==
    IF IsSome(Find(c.tokens, id))
    THEN [c EXCEPT !.tokens[Unwrap(Find(c.tokens, id))] =
              [@ EXCEPT !.owner = owner, !.image_url = image_url,
                        !.reference = reference, !.title = title,
                        !.description = description]]
    ELSE c

OpenCommit(c) ==
    /\ tokens' = c.tokens
    /\ series' = c.series
    /\ UNCHANGED cvars

MintToken(id, sid, d) ==
    /\ Len(tokens) < MaxLen
    /\ OpenCommit(mint_token(OpenSelf, id, sid, d[1], d[2], d[3], d[4], d[5]))

OpenCreateSeries(id, name) ==
    /\ Len(series) < MaxLen
    /\ OpenCommit(create_series(OpenSelf, id, name))

\* the two views read the collection and leave it as it is
GetToken(id) ==
    /\ get_token(OpenSelf, id) \in {None} \cup {Some(tokens[i]) : i \in 1..Len(tokens)}
    /\ UNCHANGED vars

GetSeries(id) ==
    /\ get_series(OpenSelf, id) \in {None} \cup {Some(series[i]) : i \in 1..Len(series)}
    /\ UNCHANGED vars

UpdateSeriesName(id, name) ==
    /\ id \in OpenIds
    /\ OpenCommit(update_series_name(OpenSelf, id, name))

UpdateTokenDetails(id, d) ==
    /\ id \in OpenIds
    /\ OpenCommit(update_token_details(OpenSelf, id, d[1], d[2], d[3], d[4], d[5]))

NextOpen ==
    \/ \E id \in OpenIds, sid \in OpenIds, d \in OpenDetails : MintToken(id, sid, d)
    \/ \E id \in OpenIds, name \in OpenNames : OpenCreateSeries(id, name)
    \/ \E id \in OpenIds : GetToken(id)
    \/ \E id \in OpenIds : GetSeries(id)
    \/ \E id \in OpenIds, name \in OpenNames : UpdateSeriesName(id, name)
    \/ \E id \in OpenIds, d \in OpenDetails : UpdateTokenDetails(id, d)

SpecOpen == Init /\ [][NextOpen]_vars


(***************************************************************************)
(* Properties of the registry (checked under Spec)                         *)
(***************************************************************************)
\* the owners whose index set holds token t
IndexOwners(t) == { a \in DOMAIN tokens_per_owner : t \in tokens_per_owner[a] }

\* C1: index agreement: every token of tokens_by_id is in the index set of its
\* owner_id, and in the index set of exactly one owner.
C1_IndexAgreement ==
    \A t \in DOMAIN tokens_by_id :
        /\ t \in OwnerTokens(tokens_per_owner, tokens_by_id[t].owner_id)
        /\ Cardinality(IndexOwners(t)) = 1

\* C2: transfer conservation: a successful transfer of t from old to another
\* account n makes n the token's owner, takes t out of old's index set (one
\* element fewer), puts it into n's (one element more) and changes no other set.
C2_TransferConservation ==
    [][\A a \in Callers, n \in Accounts, t \in TokenIds :
        ( /\ Transfer(a, n, t)
          /\ transfer(Self, a, n, t).err = "ok"
          /\ tokens_by_id[t].owner_id # n )
        => LET old == tokens_by_id[t].owner_id
               before(o) == OwnerTokens(tokens_per_owner, o)
               after(o) == OwnerTokens(tokens_per_owner', o)
           IN  /\ tokens_by_id'[t].owner_id = n
               /\ after(old) = before(old) \ {t}
               /\ Cardinality(after(old)) = Cardinality(before(old)) - 1
               /\ after(n) = before(n) \cup {t}
               /\ Cardinality(after(n)) = Cardinality(before(n)) + 1
               /\ \A o \in Accounts \ {old, n} : after(o) = before(o)
      ]_vars

\* C3: series updates are owner-gated: a series update that supplies a new
\* value and is called by an account other than the series' owner_id fails with
\* Unauthorized and leaves the series map as it was.
C3_SeriesUpdatesOwnerGated ==
    [][\A a \in Callers, id \in DOMAIN series_by_id :
        a # series_by_id[id].owner_id =>
          /\ \A md \in TokenMetadatas \ {series_by_id[id].metadata} :
                UpdateSeriesMetadata(a, id, md) =>
                  /\ update_series_metadata(Self, a, id, md).err = ERR_UNAUTHORIZED
                  /\ series_by_id' = series_by_id
          /\ \A r \in Royalties \ {series_by_id[id].royalty} :
                UpdateSeriesRoyalty(a, id, r) =>
                  /\ update_series_royalty(Self, a, id, r).err = ERR_UNAUTHORIZED
                  /\ series_by_id' = series_by_id
          /\ \A p \in Prices \ {series_by_id[id].price} :
                UpdateSeriesPrice(a, id, p) =>
                  /\ update_series_price(Self, a, id, p).err = ERR_UNAUTHORIZED
                  /\ series_by_id' = series_by_id
          /\ \A o \in Accounts \ {series_by_id[id].owner_id} :
                UpdateSeriesOwnerId(a, id, o) =>
                  /\ update_series_owner_id(Self, a, id, o).err = ERR_UNAUTHORIZED
                  /\ series_by_id' = series_by_id
      ]_vars

\* C4: transfer allow-list gate: in every reachable state, a transfer to an
\* account that is not in allowed_transfers fails with the transfer-not-allowed
\* panic, logs nothing and leaves every store as it was; and whenever a transfer
\* changes a token's owner, the new owner is in allowed_transfers at that time.
C4_TransferAllowListGate ==
    \A a \in Callers, n \in Accounts, t \in TokenIds :
        LET r == transfer(Self, a, n, t)
        IN  /\ n \notin allowed_transfers =>
                  /\ r.err = ERR_TRANSFER_NOT_ALLOWED
                  /\ r.log = << >>
                  /\ r.st = Self
            /\ \A tok \in DOMAIN tokens_by_id :
                  /\ tok \in DOMAIN r.st.tokens_by_id
                  /\ r.st.tokens_by_id[tok].owner_id # tokens_by_id[tok].owner_id
                     => r.st.tokens_by_id[tok].owner_id \in allowed_transfers

\* a state in which a minted token exists, some account is allow-listed, a token
\* has been moved to an allow-listed account, and the transfer of a token to an
\* account outside the allow-list is refused
C4_Witness ==
    /\ \E t \in DOMAIN tokens_by_id :
          /\ tokens_by_id[t].owner_id \in allowed_transfers
          /\ t \notin OwnerTokens(tokens_per_owner, tokens_by_id[t].owner_id)
    /\ \E n \in Accounts \ allowed_transfers, t \in DOMAIN tokens_by_id :
          transfer(Self, n, n, t).err = ERR_TRANSFER_NOT_ALLOWED

\* the result of a call that panicked: the contract value is the one the call
\* started from and nothing was logged
Aborted(r) == r.err # "ok" => (r.st = Self /\ r.log = << >>)

\* C5: failure atomicity: whenever update_metadata, an update_series_*,
\* set_allowed_addresses or transfer panics, no store written before the panic
\* differs from its value before the call and no event has been logged.
C5_FailureAtomicity ==
    /\ \A p \in Callers, sg \in Callers, o \in Callers, md \in ContractMetadatas :
          Aborted(update_metadata(Self, p, sg, o, md))
    /\ \A a \in Callers, id \in SeriesIds :
          /\ \A md \in TokenMetadatas : Aborted(update_series_metadata(Self, a, id, md))
          /\ \A r \in Royalties : Aborted(update_series_royalty(Self, a, id, r))
          /\ \A p \in Prices : Aborted(update_series_price(Self, a, id, p))
          /\ \A o \in Accounts : Aborted(update_series_owner_id(Self, a, id, o))
    /\ \A p \in Callers, sg \in Callers, l \in AddressLists :
          Aborted(set_allowed_addresses(Self, p, sg, l))
    /\ \A a \in Callers, n \in Accounts, t \in TokenIds :
          Aborted(transfer(Self, a, n, t))

\* a state with a series, a token and an allow-listed account in which a
\* transfer is refused for the destination, another for the token, a series
\* update for the series id and the two owner-gated calls for the caller
C5_Witness ==
    /\ DOMAIN series_by_id # {}
    /\ \E t \in DOMAIN tokens_by_id, n \in Accounts :
          transfer(Self, n, n, t).err = ERR_TRANSFER_NOT_ALLOWED
    /\ \E t \in TokenIds, n \in allowed_transfers :
          transfer(Self, n, n, t).err = ERR_TOKEN_NOT_FOUND
    /\ \E id \in SeriesIds :
          update_series_price(Self, owner_id, id, None).err = ERR_SERIES_NOT_FOUND
    /\ \E p \in Accounts :
          update_metadata(Self, p, p, p, "custom").err = ERR_ONLY_OWNER_METADATA
    /\ \E sg \in Accounts :
          set_allowed_addresses(Self, sg, sg, << sg >>).err = ERR_ONLY_OWNER_ALLOWED

\* C6: royalty bound: the royalty table of every stored series sums to at most
\* 10000 basis points.
C6_RoyaltyBound ==
    \A id \in DOMAIN series_by_id : RoyaltySum(series_by_id[id].royalty) <= 10000

\* C7: event per committed mutation: every successful transfer that moves a
\* token, every successful series field update and every successful contract
\* metadata update logs exactly one event.
C7_EventPerMutation ==
    [][ /\ \A a \in Callers, n \in Accounts, t \in TokenIds :
              ( /\ Transfer(a, n, t)
                /\ transfer(Self, a, n, t).err = "ok"
                /\ tokens_by_id[t].owner_id # n )
              => Len(transfer(Self, a, n, t).log) = 1
        /\ \A a \in Callers, id \in DOMAIN series_by_id :
              /\ \A md \in TokenMetadatas \ {series_by_id[id].metadata} :
                    UpdateSeriesMetadata(a, id, md)
                    => Len(update_series_metadata(Self, a, id, md).log) = 1
              /\ \A r \in Royalties \ {series_by_id[id].royalty} :
                    UpdateSeriesRoyalty(a, id, r)
                    => Len(update_series_royalty(Self, a, id, r).log) = 1
              /\ \A p \in Prices \ {series_by_id[id].price} :
                    UpdateSeriesPrice(a, id, p)
                    => Len(update_series_price(Self, a, id, p).log) = 1
              /\ \A o \in Accounts \ {series_by_id[id].owner_id} :
                    UpdateSeriesOwnerId(a, id, o)
                    => Len(update_series_owner_id(Self, a, id, o).log) = 1
        /\ \A sg \in Callers, o \in Accounts, md \in ContractMetadatas \ {metadata} :
              UpdateMetadata(owner_id, sg, o, md)
              => Len(update_metadata(Self, owner_id, sg, o, md).log) = 1
      ]_vars

(***************************************************************************)
(* Properties of OpenCollection (checked under SpecOpen)                   *)
(***************************************************************************)
\* C8: token id uniqueness: no two stored tokens share an id.
C8_TokenIdUnique ==
    \A i \in 1..Len(tokens), j \in 1..Len(tokens) :
        i # j => tokens[i].id # tokens[j].id

\* C9: series id uniqueness: at most one series is stored per id.
C9_SeriesIdUnique ==
    \A i \in 1..Len(series), j \in 1..Len(series) :
        i # j => series[i].id # series[j].id

\* C10: mint requires an existing series: the series_id of every stored token is
\* the id of a stored series.
C10_TokenSeriesExists ==
    \A i \in 1..Len(tokens) :
        \E j \in 1..Len(series) : series[j].id = tokens[i].series_id

(***************************************************************************)
(* Properties of the registry's calls (checked under Spec)                 *)
(***************************************************************************)
\* C11 as stated: the transfer of a token id that is not in tokens_by_id fails
\* with the token-not-found panic for every destination account, allow-listed
\* or not, and leaves the contract value as it was.
C11_MissingTokenNotFound ==
    \A a \in Callers, n \in Accounts, t \in TokenIds \ DOMAIN tokens_by_id :
        LET r == transfer(Self, a, n, t)
        IN  /\ r.err = ERR_TOKEN_NOT_FOUND
            /\ r.st = Self

\* C11: the transfer of a token id that is not in tokens_by_id always fails,
\* logs nothing and leaves the contract value as it was; it fails with the
\* token-not-found panic when the destination is in allowed_transfers and with
\* the transfer-not-allowed panic when it is not.
C11_MissingTokenTransferFails ==
    \A a \in Callers, n \in Accounts, t \in TokenIds \ DOMAIN tokens_by_id :
        LET r == transfer(Self, a, n, t)
        IN  /\ r.err = IF n \in allowed_transfers
                       THEN ERR_TOKEN_NOT_FOUND
                       ELSE ERR_TRANSFER_NOT_ALLOWED
            /\ r.st = Self
            /\ r.log = << >>

\* a state with a minted token and an allow-listed account in which a token id
\* that was never minted is refused once for each of the two reasons
C11_Witness ==
    /\ DOMAIN tokens_by_id # {}
    /\ \E t \in TokenIds \ DOMAIN tokens_by_id :
          /\ \E n \in allowed_transfers :
                transfer(Self, n, n, t).err = ERR_TOKEN_NOT_FOUND
          /\ \E n \in Accounts \ allowed_transfers :
                transfer(Self, n, n, t).err = ERR_TRANSFER_NOT_ALLOWED

\* the result of a series update for an id that series_by_id does not hold
SeriesMissing(r, id) ==
    /\ r.err = ERR_SERIES_NOT_FOUND
    /\ id \notin DOMAIN r.st.series_by_id
    /\ r.st = Self
    /\ r.log = << >>

\* C12: each of the four series updates, called with a series id that is not in
\* series_by_id, fails with the series-not-found panic, stores no series under
\* that id, leaves the contract value as it was and logs nothing.
C12_UnknownSeriesUpdateFails ==
    \A a \in Callers, id \in SeriesIds \ DOMAIN series_by_id :
        /\ \A md \in TokenMetadatas :
              SeriesMissing(update_series_metadata(Self, a, id, md), id)
        /\ \A r \in Royalties :
              SeriesMissing(update_series_royalty(Self, a, id, r), id)
        /\ \A p \in Prices :
              SeriesMissing(update_series_price(Self, a, id, p), id)
        /\ \A o \in Accounts :
              SeriesMissing(update_series_owner_id(Self, a, id, o), id)

\* a state that holds one series and not the other, after a call (a series
\* update of the missing id among them) that left it so
C12_Witness ==
    /\ ncalls >= 2
    /\ \E id \in DOMAIN series_by_id, missing \in SeriesIds \ DOMAIN series_by_id :
          /\ update_series_price(Self, owner_id, id, None).err = "ok"
          /\ update_series_price(Self, owner_id, missing, None).err
                = ERR_SERIES_NOT_FOUND

\* C13: single-field replace frame: a series update of a stored series succeeds
\* and yields the contract value in which that series' targeted field is the
\* supplied value and everything else (the series' other fields and token set,
\* the other series, the tokens, the owner index, the access sets, the contract
\* owner and metadata) is as before.
C13_SingleFieldReplace ==
    \A a \in Callers, id \in DOMAIN series_by_id :
        /\ \A md \in TokenMetadatas :
              LET r == update_series_metadata(Self, a, id, md)
              IN  /\ r.err = "ok"
                  /\ r.st = [Self EXCEPT !.series_by_id[id].metadata = md]
        /\ \A ro \in Royalties :
              LET r == update_series_royalty(Self, a, id, ro)
              IN  /\ r.err = "ok"
                  /\ r.st = [Self EXCEPT !.series_by_id[id].royalty = ro]
        /\ \A p \in Prices :
              LET r == update_series_price(Self, a, id, p)
              IN  /\ r.err = "ok"
                  /\ r.st = [Self EXCEPT !.series_by_id[id].price = p]
        /\ \A o \in Accounts :
              LET r == update_series_owner_id(Self, a, id, o)
              IN  /\ r.err = "ok"
                  /\ r.st = [Self EXCEPT !.series_by_id[id].owner_id = o]

\* a state with two series, one of them with a royalty table, a price and a
\* minted token, whose royalty table can be replaced by None
C13_Witness ==
    /\ DOMAIN series_by_id = SeriesIds
    /\ \E id \in DOMAIN series_by_id :
          /\ series_by_id[id].royalty # None
          /\ series_by_id[id].price # None
          /\ series_by_id[id].tokens # {}
          /\ update_series_royalty(Self, owner_id, id, None).st.series_by_id[id].royalty
                = None

\* the elements of a Vec
Elems(l) == { l[i] : i \in 1..Len(l) }

\* C14: allow-list grants are contract-owner gated: whatever the predecessor,
\* set_allowed_addresses succeeds when the signer is the contract owner and
\* fails with no change otherwise; on success the contract value is the old one
\* with allowed_transfers united with the supplied addresses (so nothing is
\* removed and nothing else changes), and the same call again changes nothing.
C14_AllowListOwnerGated ==
    \A p \in Callers, sg \in Callers, l \in AddressLists :
        LET r == set_allowed_addresses(Self, p, sg, l)
        IN  IF sg = owner_id
            THEN /\ r.err = "ok"
                 /\ r.st = [Self EXCEPT !.allowed_transfers = @ \cup Elems(l)]
                 /\ allowed_transfers \subseteq r.st.allowed_transfers
                 /\ set_allowed_addresses(r.st, p, sg, l).st = r.st
            ELSE /\ r.err = ERR_ONLY_OWNER_ALLOWED
                 /\ r.st = Self

\* a state whose allow-list was granted an account, in which a call signed by
\* the owner and made by another account grants one more, and the call signed by
\* that account and made by the owner is refused
C14_Witness ==
    /\ allowed_transfers # {}
    /\ \E p \in Accounts \ {owner_id}, n \in Accounts \ allowed_transfers :
          /\ set_allowed_addresses(Self, p, owner_id, << n >>).st.allowed_transfers
                = allowed_transfers \cup {n}
          /\ set_allowed_addresses(Self, owner_id, p, << n >>).err
                = ERR_ONLY_OWNER_ALLOWED

\* C15: contract metadata is gated by the predecessor and independent of series
\* metadata: whatever the signer and the owner_id argument, update_metadata
\* succeeds when the predecessor is the contract owner, and then the contract
\* value is the old one with metadata replaced (no series changes), and fails
\* with no change otherwise; and no update_series_metadata changes the contract
\* metadata.
C15_ContractMetadataGated ==
    /\ \A p \in Callers, sg \in Callers, o \in Callers, md \in ContractMetadatas :
          LET r == update_metadata(Self, p, sg, o, md)
          IN  IF p = owner_id
              THEN /\ r.err = "ok"
                   /\ r.st = [Self EXCEPT !.metadata = md]
                   /\ r.st.series_by_id = series_by_id
              ELSE /\ r.err = ERR_ONLY_OWNER_METADATA
                   /\ r.st = Self
    /\ \A a \in Callers, id \in SeriesIds, md \in TokenMetadatas :
          update_series_metadata(Self, a, id, md).st.metadata = metadata

\* a state with a series and replaced contract metadata, in which the owner as
\* predecessor under another signer replaces the metadata again, the owner as
\* signer under another predecessor is refused, and a series metadata update
\* succeeds
C15_Witness ==
    /\ metadata # DefaultMetadata
    /\ \E id \in DOMAIN series_by_id :
          \E md \in TokenMetadatas \ {series_by_id[id].metadata} :
             update_series_metadata(Self, owner_id, id, md).st.series_by_id[id].metadata
                = md
    /\ \E p \in Accounts \ {owner_id} :
          /\ update_metadata(Self, owner_id, p, p, DefaultMetadata).st.metadata
                = DefaultMetadata
          /\ update_metadata(Self, p, owner_id, p, DefaultMetadata).err
                = ERR_ONLY_OWNER_METADATA

\* C16: the contract owner is the account the contract was constructed for: no
\* step changes owner_id.
C16_OwnerConstant ==
    [][owner_id' = owner_id]_vars

\* a state, after calls, in which a series has an owner other than the contract
\* owner and update_metadata called with another account as its owner_id
\* argument succeeds
C16_Witness ==
    /\ ncalls >= 2
    /\ metadata = "custom"
    /\ \E id \in DOMAIN series_by_id : series_by_id[id].owner_id # owner_id
    /\ \E o \in Accounts \ {owner_id} :
          update_metadata(Self, owner_id, owner_id, o, DefaultMetadata).err = "ok"

\* C17: persistence of records: no step takes a series id out of series_by_id,
\* a token id out of tokens_by_id or a token out of a series' token set; a
\* stored token keeps its series_id, and its owner_id changes only in a step of
\* transfer.
C17_RecordsPersist ==
    [][ /\ DOMAIN series_by_id \subseteq DOMAIN series_by_id'
        /\ DOMAIN tokens_by_id \subseteq DOMAIN tokens_by_id'
        /\ \A id \in DOMAIN series_by_id :
              series_by_id[id].tokens \subseteq series_by_id'[id].tokens
        /\ \A t \in DOMAIN tokens_by_id :
              /\ tokens_by_id'[t].series_id = tokens_by_id[t].series_id
              /\ tokens_by_id'[t].owner_id # tokens_by_id[t].owner_id
                 => \E a \in Callers : Transfer(a, tokens_by_id'[t].owner_id, t)
      ]_vars

\* a state with a token that a transfer has moved to another owner while its
\* series still lists it
C17_Witness ==
    /\ DOMAIN series_by_id # {}
    /\ \E t \in DOMAIN tokens_by_id :
          /\ t \notin OwnerTokens(tokens_per_owner, tokens_by_id[t].owner_id)
          /\ t \in series_by_id[tokens_by_id[t].series_id].tokens

\* every event of the call was logged when the contract value in storage was
\* the one the call ends with
Committed(r) ==
    /\ Len(r.seen) = Len(r.log)
    /\ \A i \in 1..Len(r.log) : r.seen[i] = Some(r.st)

\* C18: commit-before-emit ordering: every call that logs an event, the
\* construction by new_default_meta included, logs it when all of the call's
\* writes are in storage.
C18_CommitBeforeEmit ==
    /\ \A owner \in InitOwners :
          (ncalls = 0 /\ Self = new_default_meta(owner).st)
              => Committed(new_default_meta(owner))
    /\ \A p \in Accounts, sg \in Accounts, o \in Accounts, md \in ContractMetadatas :
          Committed(update_metadata(Self, p, sg, o, md))
    /\ \A a \in Accounts, id \in SeriesIds :
          /\ \A md \in TokenMetadatas :
                Committed(update_series_metadata(Self, a, id, md))
          /\ \A r \in Royalties : Committed(update_series_royalty(Self, a, id, r))
          /\ \A p \in Prices : Committed(update_series_price(Self, a, id, p))
          /\ \A o \in Accounts : Committed(update_series_owner_id(Self, a, id, o))

\* C19: transfer authorization is destination-only: for every caller (the
\* token's owner, the contract owner or neither), the outcome of transfer is the
\* one that new_owner_id's membership of allowed_transfers and token_id's
\* membership of tokens_by_id decide; when both hold the call succeeds and makes
\* new_owner_id the token's owner, whoever calls.
C19_TransferDestinationOnly ==
    \A a \in Callers, n \in Accounts, t \in TokenIds :
        transfer(Self, a, n, t) =
            IF n \notin allowed_transfers
            THEN Panic(Self, ERR_TRANSFER_NOT_ALLOWED, << >>, << >>)
            ELSE IF t \notin DOMAIN tokens_by_id
            THEN Panic(Self, ERR_TOKEN_NOT_FOUND, << >>, << >>)
            ELSE Ok([Self EXCEPT !.tokens_by_id[t].owner_id = n], << >>, << >>)

\* a state with a token and an allow-listed account in which a caller that is
\* neither the token's owner nor the contract owner moves the token to the
\* allow-listed account
C19_Witness ==
    \E t \in DOMAIN tokens_by_id, n \in allowed_transfers :
        \E a \in Callers \ {owner_id, tokens_by_id[t].owner_id} :
            /\ tokens_by_id[t].owner_id # n
            /\ transfer(Self, a, n, t).err = "ok"
            /\ transfer(Self, a, n, t).st.tokens_by_id[t].owner_id = n

\* the event a successful call logs
EventOf(r) == r.log[1]

\* C20: field-scoped events: the events of successful updates of a series'
\* metadata, royalty, price and owner_id differ from one another, and each
\* differs in kind from the event of a contract metadata update.
C20_FieldScopedEvents ==
    \A a \in Accounts, id \in DOMAIN series_by_id :
        \A md \in TokenMetadatas, ro \in Royalties, p \in Prices, o \in Accounts :
            LET em == EventOf(update_series_metadata(Self, a, id, md))
                er == EventOf(update_series_royalty(Self, a, id, ro))
                ep == EventOf(update_series_price(Self, a, id, p))
                eo == EventOf(update_series_owner_id(Self, a, id, o))
            IN  /\ Cardinality({em, er, ep, eo}) = 4
                /\ \A cmd \in ContractMetadatas :
                      EventOf(update_metadata(Self, owner_id, a, o, cmd)).event
                         \notin {em.event, er.event, ep.event, eo.event}

\* the contract value constructed for owner with metadata md
Fresh(owner, md) ==
    [owner_id |-> owner,
     approved_minters |-> {owner},
     approved_creators |-> {owner},
     series_by_id |-> << >>,
     tokens_by_id |-> << >>,
     tokens_per_owner |-> << >>,
     metadata |-> md,
     allowed_transfers |-> {}]

\* the call leaves an empty allow-list empty
KeepsEmpty(r) == r.st.allowed_transfers = {}

\* C21: initial state: new(O, md) and new_default_meta(O) construct the contract
\* value whose minters and creators are exactly {O}, whose series map, token
\* map, owner index and allow-list are empty, whose owner is O and whose
\* metadata is md (the default metadata for new_default_meta), and the state
\* before any call is such a value; while the allow-list is empty no transfer
\* succeeds, and no call other than a set_allowed_addresses signed by the owner
\* makes it non-empty.
C21_InitialState ==
    /\ \A owner \in InitOwners :
          /\ \A md \in ContractMetadatas :
                /\ new(owner, md).err = "ok"
                /\ new(owner, md).st = Fresh(owner, md)
          /\ new_default_meta(owner).err = "ok"
          /\ new_default_meta(owner).st = Fresh(owner, DefaultMetadata)
    /\ ncalls = 0 =>
          \E owner \in InitOwners, md \in ContractMetadatas : Self = Fresh(owner, md)
    /\ allowed_transfers = {} =>
          /\ \A a \in Callers, n \in Accounts, t \in TokenIds :
                /\ transfer(Self, a, n, t).err # "ok"
                /\ KeepsEmpty(transfer(Self, a, n, t))
          /\ \A p \in Callers, sg \in Callers \ {owner_id}, l \in AddressLists :
                KeepsEmpty(set_allowed_addresses(Self, p, sg, l))
          /\ \A p \in Callers, sg \in Callers, o \in Callers, md \in ContractMetadatas :
                KeepsEmpty(update_metadata(Self, p, sg, o, md))
          /\ \A a \in Callers, id \in SeriesIds :
                /\ \A md \in TokenMetadatas :
                      KeepsEmpty(update_series_metadata(Self, a, id, md))
                /\ \A r \in Royalties :
                      KeepsEmpty(update_series_royalty(Self, a, id, r))
                /\ \A p \in Prices : KeepsEmpty(update_series_price(Self, a, id, p))
                /\ \A o \in Accounts :
                      KeepsEmpty(update_series_owner_id(Self, a, id, o))

\* a state, after calls, with a minted token and a still empty allow-list, in
\* which the token's transfer is refused and succeeds once the owner has signed
\* a grant for the destination
C21_Witness ==
    /\ ncalls >= 2
    /\ allowed_transfers = {}
    /\ \E t \in DOMAIN tokens_by_id, n \in Accounts, a \in Callers \ {owner_id} :
             /\ n # tokens_by_id[t].owner_id
             /\ transfer(Self, a, n, t).err = ERR_TRANSFER_NOT_ALLOWED
             /\ transfer(set_allowed_addresses(Self, a, owner_id, << n >>).st,
                         a, n, t).err = "ok"

(***************************************************************************)
(* Properties of OpenCollection's calls (checked under SpecOpen)           *)
(***************************************************************************)
\* vec2 is vec with the first element whose id is id replaced by e, and vec
\* itself when no element has that id
FirstReplaced(vec, vec2, id, e) ==
    /\ Len(vec2) = Len(vec)
    /\ \A i \in 1..Len(vec) :
          vec2[i] = IF vec[i].id = id /\ \A j \in 1..(i - 1) : vec[j].id # id
                    THEN e
                    ELSE vec[i]

Stored(vec, id) == \E i \in 1..Len(vec) : vec[i].id = id

\* C22: lookup/update agreement of OpenCollection: update_series_name and
\* update_token_details with an id that is not stored return the collection as
\* it was; with a stored id they replace the name (the owner and the four
\* details) of the first stored element with that id only, keep the number and
\* order of the elements and every token's id and series_id, and the get_series
\* (get_token) of that id that follows returns the updated element.
C22_LookupUpdateAgreement ==
    /\ \A id \in OpenIds, name \in OpenNames :
          LET c2 == update_series_name(OpenSelf, id, name)
              e == [id |-> id, name |-> name]
          IN  /\ c2.tokens = tokens
              /\ FirstReplaced(series, c2.series, id, e)
              /\ ~Stored(series, id) => c2 = OpenSelf
              /\ Stored(series, id) => get_series(c2, id) = Some(e)
    /\ \A id \in OpenIds, d \in OpenDetails :
          LET c2 == update_token_details(OpenSelf, id, d[1], d[2], d[3], d[4], d[5])
              old == Unwrap(get_token(OpenSelf, id))
              e == [id |-> id, series_id |-> old.series_id, owner |-> d[1],
                    image_url |-> d[2], reference |-> d[3], title |-> d[4],
                    description |-> d[5]]
          IN  /\ c2.series = series
              /\ Len(c2.tokens) = Len(tokens)
              /\ \A i \in 1..Len(tokens) :
                    /\ c2.tokens[i].id = tokens[i].id
                    /\ c2.tokens[i].series_id = tokens[i].series_id
              /\ ~Stored(tokens, id) => c2 = OpenSelf
              /\ Stored(tokens, id) =>
                    /\ FirstReplaced(tokens, c2.tokens, id, e)
                    /\ get_token(c2, id) = Some(e)

\* a state with two series and two tokens of one id each, the first of each
\* pair renamed / re-detailed and the second not, and an id that is not stored
C22_Witness ==
    /\ Len(series) = 2 /\ series[1].id = series[2].id
    /\ series[1].name # series[2].name
    /\ Len(tokens) = 2 /\ tokens[1].id = tokens[2].id
    /\ tokens[1].owner # tokens[2].owner
    /\ \E id \in OpenIds :
          /\ ~Stored(series, id)
          /\ \A name \in OpenNames : update_series_name(OpenSelf, id, name) = OpenSelf
    /\ \E name \in OpenNames \ {series[1].name} :
          update_series_name(OpenSelf, series[1].id, name).series[2] = series[2]

====
